---------------------------- MODULE Spec2Model ----------------------------
(***************************************************************************)
(* Model of package kprom (plugin/kprom/kprom.go): the prometheus plug-in   *)
(* metrics of a kgo client.  A Metrics value owns nine counter vectors;     *)
(* NewMetrics registers them into a registry and six hook methods update    *)
(* them.  The prometheus calls the package makes (MustRegister,             *)
(* WithLabelValues, Inc, Add) are modelled by their documented behaviour    *)
(* at the lines that call them.                                             *)
(***************************************************************************)
EXTENDS Integers, Sequences, FiniteSets, TLC

VARIABLES
    registries,  \* registry id -> set of fully-qualified names registered in it
    metrics,     \* instance id -> the *Metrics returned by a NewMetrics call
    lastCall,    \* the most recent call: its arguments and whether it panicked
    ncalls,      \* number of calls made so far
    hist,        \* history: what the calls made so far should have counted
    gor          \* goroutines running a hook in two steps (SpecConc only)

vars == <<registries, metrics, lastCall, ncalls, hist, gor>>

(***************************************************************************)
(* Bounds and input sets.                                                   *)
(***************************************************************************)
MaxCalls == 3

MinInt32 == -2147483647 - 1

Nodes == {MinInt32, 1}

Topics == {"", "orders"}

ByteCounts == {-1, 0, 2}

nil == "nil"

Errs == {nil, "EOF"}

Namespaces == {"kafka", "app"}

(***************************************************************************)
(* strconv.Itoa(int(meta.NodeID)): sign, then the decimal digits of the     *)
(* magnitude, most significant first.                                       *)
(***************************************************************************)
Digit(d) ==
    CASE d = 0 -> "0" [] d = 1 -> "1" [] d = 2 -> "2" [] d = 3 -> "3"
      [] d = 4 -> "4" [] d = 5 -> "5" [] d = 6 -> "6" [] d = 7 -> "7"
      [] d = 8 -> "8" [] d = 9 -> "9"

RECURSIVE FormatUint(_)
FormatUint(u) ==
    IF u < 10 THEN Digit(u) ELSE FormatUint(u \div 10) \o Digit(u % 10)

\* Mutant: the sign is dropped.
Itoa_Abs(i) ==
    IF i >= 0 THEN FormatUint(i)
    ELSE LET last == (10 - (i % 10)) % 10
             rest == -((i + last) \div 10)
         IN  IF rest = 0 THEN Digit(last) ELSE FormatUint(rest) \o Digit(last)

\* The magnitude of a negative i is formatted from its last digit and the
\* magnitude of the rest, so that the minimum int32 needs no negation.
Itoa(i) ==
    IF i >= 0 THEN FormatUint(i)
    ELSE LET last == (10 - (i % 10)) % 10
             rest == -((i + last) \div 10)
         IN  "-" \o (IF rest = 0 THEN Digit(last)
                     ELSE FormatUint(rest) \o Digit(last))

\* float64(n) of an int: exact for every |n| <= 2^53, which covers every
\* integer this model can hold.
Float64(n) == n

(***************************************************************************)
(* prometheus.CounterVec: a descriptor and the children created so far,     *)
(* keyed by their label values.                                             *)
(***************************************************************************)
\* Mutant: the namespace is left out of the name.
BuildFQName_NoNamespace(namespace, name) == name

\* prometheus.BuildFQName with an empty subsystem
BuildFQName(namespace, name) ==
    IF namespace = "" THEN name ELSE namespace \o "_" \o name

NewCounterVecValue(namespace, name, labelNames) ==
    [fqName |-> BuildFQName(namespace, name),
     labels |-> labelNames,
     children |-> <<>>]

\* The value a scrape shows for a label tuple: absent tuples have no sample.
Val(vec, lvs) == IF lvs \in DOMAIN vec.children THEN vec.children[lvs] ELSE 0

\* Mutant: the child is created without looking for an existing one.
WithLabelValues_NoLookup(vec, lvs) ==
    [vec |-> [vec EXCEPT !.children =
                 (lvs :> 0) @@ [k \in DOMAIN vec.children \ {lvs} |-> vec.children[k]]],
     panicked |-> FALSE]

\* v.WithLabelValues(lvs...): get the child or create it at 0; panics when the
\* number of values is not the number of labels.
WithLabelValues(vec, lvs) ==
    IF Len(lvs) # Len(vec.labels)
    THEN [vec |-> vec, panicked |-> TRUE]
    ELSE IF lvs \in DOMAIN vec.children
         THEN [vec |-> vec, panicked |-> FALSE]
         ELSE [vec |-> [vec EXCEPT !.children = (lvs :> 0) @@ vec.children],
               panicked |-> FALSE]

\* Mutant: Add that stores v in place of adding it.
CounterAdd_Set(cur, v) ==
    IF v < 0 THEN [val |-> cur, panicked |-> TRUE]
    ELSE [val |-> v, panicked |-> FALSE]

\* Mutant: Add without the check of the sign.
CounterAdd_NoCheck(cur, v) == [val |-> cur + v, panicked |-> FALSE]

\* Counter.Add(v): panics if v < 0, else adds v.
CounterAdd(cur, v) ==
    IF v < 0 THEN [val |-> cur, panicked |-> TRUE]
    ELSE [val |-> cur + v, panicked |-> FALSE]

\* Counter.Inc(): adds 1.
CounterInc(cur) == [val |-> cur + 1, panicked |-> FALSE]

\* Mutant: nothing is looked up when the amount is 0.
VecAdd_SkipZero(m, field, lvs, v) ==
    IF v = 0 THEN [m |-> m, panicked |-> FALSE]
    ELSE LET w == WithLabelValues(m[field], lvs)
             a == CounterAdd(w.vec.children[lvs], v)
         IN  [m |-> [m EXCEPT ![field] = [w.vec EXCEPT !.children[lvs] = a.val]],
              panicked |-> a.panicked]

\* m.<field>.WithLabelValues(lvs...).Add(v) on the Metrics value m
VecAdd(m, field, lvs, v) ==
    LET w == WithLabelValues(m[field], lvs) IN
    IF w.panicked THEN [m |-> m, panicked |-> TRUE]
    ELSE LET a == CounterAdd(w.vec.children[lvs], v) IN
         [m |-> [m EXCEPT ![field] = [w.vec EXCEPT !.children[lvs] = a.val]],
          panicked |-> a.panicked]

\* m.<field>.WithLabelValues(lvs...).Inc() on the Metrics value m
VecInc(m, field, lvs) ==
    LET w == WithLabelValues(m[field], lvs) IN
    IF w.panicked THEN [m |-> m, panicked |-> TRUE]
    ELSE LET a == CounterInc(w.vec.children[lvs]) IN
         [m |-> [m EXCEPT ![field] = [w.vec EXCEPT !.children[lvs] = a.val]],
          panicked |-> a.panicked]


(***************************************************************************)
(* prometheus.Registry and NewMetrics.                                      *)
(***************************************************************************)
\* Names described by prometheus.NewProcessCollector / prometheus.NewGoCollector
ProcessCollectorNames == {"process_cpu_seconds_total", "process_open_fds"}

GoCollectorNames == {"go_goroutines", "go_threads"}

\* The registry the caller passes with the Registry option, and no option.
UserReg == "user"

NoRegOpt == "none"

\* Mutant: Register with its error dropped.
MustRegister_Swallow(regset, names) ==
    [reg |-> regset \cup names, panicked |-> FALSE]

\* reg.Register(c): an error when a name c describes is already registered,
\* else all of c's names are added.  MustRegister panics on the error.
MustRegister(regset, names) ==
    IF names \cap regset # {}
    THEN [reg |-> regset, panicked |-> TRUE]
    ELSE [reg |-> regset \cup names, panicked |-> FALSE]

\* The counter vectors of the Metrics literal, in the order it evaluates them.
Families ==
    << [field |-> "connects",     name |-> "connects_total",       labels |-> <<"node_id">>],
       [field |-> "connectErrs",  name |-> "connect_errors_total", labels |-> <<"node_id">>],
       [field |-> "disconnects",  name |-> "disconnects_total",    labels |-> <<"node_id">>],
       [field |-> "writeErrs",    name |-> "write_errors_total",   labels |-> <<"node_id">>],
       [field |-> "writeBytes",   name |-> "write_bytes_total",    labels |-> <<"node_id">>],
       [field |-> "readErrs",     name |-> "read_errors_total",    labels |-> <<"node_id">>],
       [field |-> "readBytes",    name |-> "read_bytes_total",     labels |-> <<"node_id">>],
       [field |-> "produceBytes", name |-> "produce_bytes_total",  labels |-> <<"node_id", "topic">>],
       [field |-> "fetchBytes",   name |-> "fetch_bytes_total",    labels |-> <<"node_id", "topic">>] >>

Fields == {Families[k].field : k \in 1..Len(Families)}

FamilyNames(namespace) ==
    {BuildFQName(namespace, Families[k].name) : k \in 1..Len(Families)}

\* MustRegister of each collector of the sequence in turn, stopping at the
\* first that panics: what was registered before it stays registered.
RECURSIVE RegisterInOrder(_, _)
RegisterInOrder(regset, collectors) ==
    IF collectors = <<>> THEN [reg |-> regset, panicked |-> FALSE]
    ELSE LET r == MustRegister(regset, Head(collectors)) IN
         IF r.panicked THEN r ELSE RegisterInOrder(r.reg, Tail(collectors))

\* NewMetrics(namespace, opts...) on the registries regs; fresh is the id of
\* the registry prometheus.NewRegistry() returns.  The result holds the
\* registries after the call, whether it panicked, and the *Metrics returned.
NewMetrics(regs, fresh, namespace, regOpt, goCollectors) ==
    LET regs1 == (fresh :> {}) @@ regs
        cfgreg == IF regOpt = NoRegOpt THEN fresh ELSE regOpt
        aux == IF goCollectors THEN <<ProcessCollectorNames, GoCollectorNames>>
               ELSE <<>>
        fams == [k \in 1..Len(Families) |->
                    {BuildFQName(namespace, Families[k].name)}]
        r == RegisterInOrder(regs1[cfgreg], aux \o fams)
        vec(field) ==
            LET f == CHOOSE f \in {Families[k] : k \in 1..Len(Families)} :
                         f.field = field
            IN  NewCounterVecValue(namespace, f.name, f.labels)
    IN  [regs |-> [regs1 EXCEPT ![cfgreg] = r.reg],
         panicked |-> r.panicked,
         m |-> [cfg |-> [reg |-> cfgreg, goCollectors |-> goCollectors]]
               @@ [field \in Fields |-> vec(field)]]

(***************************************************************************)
(* The hooks, as functions from the Metrics value to the Metrics value      *)
(* after the call and whether the call panicked.                            *)
(***************************************************************************)
\* Mutants of the hooks: the error branch without its return, the branches
\* swapped, Inc in place of Add, the wrong vector.
OnBrokerConnectFn_NoReturn(m, NodeID, err) ==
    LET node == Itoa(NodeID) IN
    IF err # nil
    THEN VecInc(VecInc(m, "connectErrs", <<node>>).m, "connects", <<node>>)
    ELSE VecInc(m, "connects", <<node>>)

OnBrokerConnectFn_Swapped(m, NodeID, err) ==
    LET node == Itoa(NodeID) IN
    IF err = nil
    THEN VecInc(m, "connectErrs", <<node>>)
    ELSE VecInc(m, "connects", <<node>>)

OnBrokerWriteFn_NoReturn(m, NodeID, bytesWritten, err) ==
    LET node == Itoa(NodeID) IN
    IF err # nil
    THEN VecAdd(VecInc(m, "writeErrs", <<node>>).m, "writeBytes", <<node>>,
                Float64(bytesWritten))
    ELSE VecAdd(m, "writeBytes", <<node>>, Float64(bytesWritten))

OnBrokerWriteFn_IncBytes(m, NodeID, bytesWritten, err) ==
    LET node == Itoa(NodeID) IN
    IF err # nil
    THEN VecInc(m, "writeErrs", <<node>>)
    ELSE VecInc(m, "writeBytes", <<node>>)

OnBrokerReadFn_NoReturn(m, NodeID, bytesRead, err) ==
    LET node == Itoa(NodeID) IN
    IF err # nil
    THEN VecAdd(VecInc(m, "readErrs", <<node>>).m, "readBytes", <<node>>,
                Float64(bytesRead))
    ELSE VecAdd(m, "readBytes", <<node>>, Float64(bytesRead))

OnFetchBatchReadFn_ProduceVec(m, NodeID, topic, UncompressedBytes) ==
    LET node == Itoa(NodeID) IN
    VecAdd(m, "produceBytes", <<node, topic>>, Float64(UncompressedBytes))

\* Mutant: connects_total kept as the number of open connections.
OnBrokerDisconnectFn_Decrement(m, NodeID) ==
    LET node == Itoa(NodeID)
        r == VecInc(m, "disconnects", <<node>>)
    IN  [m |-> [r.m EXCEPT !["connects"].children =
                   (<<node>> :> Val(r.m.connects, <<node>>) - 1) @@ @],
         panicked |-> r.panicked]

\* Mutant: a produced batch is also counted as fetched.
OnProduceBatchWrittenFn_AlsoFetch(m, NodeID, topic, UncompressedBytes) ==
    LET node == Itoa(NodeID)
        r == VecAdd(m, "produceBytes", <<node, topic>>, Float64(UncompressedBytes))
    IN  VecAdd(r.m, "fetchBytes", <<node, topic>>, Float64(UncompressedBytes))

OnBrokerConnectFn(m, NodeID, err) ==
    LET node == Itoa(NodeID) IN
    IF err # nil
    THEN VecInc(m, "connectErrs", <<node>>)
    ELSE VecInc(m, "connects", <<node>>)

OnBrokerDisconnectFn(m, NodeID) ==
    LET node == Itoa(NodeID) IN
    VecInc(m, "disconnects", <<node>>)

OnBrokerWriteFn(m, NodeID, bytesWritten, err) ==
    LET node == Itoa(NodeID) IN
    IF err # nil
    THEN VecInc(m, "writeErrs", <<node>>)
    ELSE VecAdd(m, "writeBytes", <<node>>, Float64(bytesWritten))

OnBrokerReadFn(m, NodeID, bytesRead, err) ==
    LET node == Itoa(NodeID) IN
    IF err # nil
    THEN VecInc(m, "readErrs", <<node>>)
    ELSE VecAdd(m, "readBytes", <<node>>, Float64(bytesRead))

OnProduceBatchWrittenFn(m, NodeID, topic, UncompressedBytes) ==
    LET node == Itoa(NodeID) IN
    VecAdd(m, "produceBytes", <<node, topic>>, Float64(UncompressedBytes))

OnFetchBatchReadFn(m, NodeID, topic, UncompressedBytes) ==
    LET node == Itoa(NodeID) IN
    VecAdd(m, "fetchBytes", <<node, topic>>, Float64(UncompressedBytes))

(***************************************************************************)
(* State after construction, and one action per hook call.                  *)
(***************************************************************************)
\* id of the k-th registry prometheus.NewRegistry() returns
FreshReg(k) == "new" \o Itoa(k)

NoCall == [op |-> "none", inst |-> 0, panicked |-> FALSE,
           args |-> [node |-> 0, topic |-> "", n |-> 0, err |-> nil]]

HookCall(op, i, NodeID, topic, n, err, panicked) ==
    [op |-> op, inst |-> i, panicked |-> panicked,
     args |-> [node |-> NodeID, topic |-> topic, n |-> n, err |-> err]]

\* History of one instance: events seen per node, by kind, and the bytes of
\* the writes that reported no error and a byte count (>= 0).
NoHist ==
    [connectEvents    |-> [x \in Nodes |-> 0],
     disconnectEvents |-> [x \in Nodes |-> 0],
     writeErrEvents   |-> [x \in Nodes |-> 0],
     readErrEvents    |-> [x \in Nodes |-> 0],
     writeOKBytes     |-> [x \in Nodes |-> 0]]

\* m := kprom.NewMetrics(ns), as in the package documentation
Init ==
    \E ns \in {"kafka"} :
        LET r == NewMetrics(<<>>, FreshReg(1), ns, NoRegOpt, FALSE) IN
        /\ registries = r.regs
        /\ metrics = <<r.m>>
        /\ lastCall = NoCall
        /\ ncalls = 0
        /\ hist = <<NoHist>>
        /\ gor = <<>>

OnBrokerConnect(i, NodeID, err) ==
    /\ ncalls < MaxCalls
    /\ LET r == OnBrokerConnectFn(metrics[i], NodeID, err) IN
        /\ metrics' = [metrics EXCEPT ![i] = r.m]
        /\ lastCall' = HookCall("OnBrokerConnect", i, NodeID, "", 0, err, r.panicked)
    /\ hist' = [hist EXCEPT ![i].connectEvents[NodeID] = @ + 1]
    /\ ncalls' = ncalls + 1
    /\ UNCHANGED <<registries, gor>>

OnBrokerDisconnect(i, NodeID) ==
    /\ ncalls < MaxCalls
    /\ LET r == OnBrokerDisconnectFn(metrics[i], NodeID) IN
        /\ metrics' = [metrics EXCEPT ![i] = r.m]
        /\ lastCall' = HookCall("OnBrokerDisconnect", i, NodeID, "", 0, nil, r.panicked)
    /\ hist' = [hist EXCEPT ![i].disconnectEvents[NodeID] = @ + 1]
    /\ ncalls' = ncalls + 1
    /\ UNCHANGED <<registries, gor>>

OnBrokerWrite(i, NodeID, bytesWritten, err) ==
    /\ ncalls < MaxCalls
    /\ LET r == OnBrokerWriteFn(metrics[i], NodeID, bytesWritten, err) IN
        /\ metrics' = [metrics EXCEPT ![i] = r.m]
        /\ lastCall' = HookCall("OnBrokerWrite", i, NodeID, "", bytesWritten, err, r.panicked)
    /\ hist' = IF err # nil
               THEN [hist EXCEPT ![i].writeErrEvents[NodeID] = @ + 1]
               ELSE IF bytesWritten >= 0
                    THEN [hist EXCEPT ![i].writeOKBytes[NodeID] = @ + bytesWritten]
                    ELSE hist
    /\ ncalls' = ncalls + 1
    /\ UNCHANGED <<registries, gor>>

OnBrokerRead(i, NodeID, bytesRead, err) ==
    /\ ncalls < MaxCalls
    /\ LET r == OnBrokerReadFn(metrics[i], NodeID, bytesRead, err) IN
        /\ metrics' = [metrics EXCEPT ![i] = r.m]
        /\ lastCall' = HookCall("OnBrokerRead", i, NodeID, "", bytesRead, err, r.panicked)
    /\ hist' = IF err # nil
               THEN [hist EXCEPT ![i].readErrEvents[NodeID] = @ + 1]
               ELSE hist
    /\ ncalls' = ncalls + 1
    /\ UNCHANGED <<registries, gor>>

OnProduceBatchWritten(i, NodeID, topic, UncompressedBytes) ==
    /\ ncalls < MaxCalls
    /\ LET r == OnProduceBatchWrittenFn(metrics[i], NodeID, topic, UncompressedBytes) IN
        /\ metrics' = [metrics EXCEPT ![i] = r.m]
        /\ lastCall' = HookCall("OnProduceBatchWritten", i, NodeID, topic,
                                UncompressedBytes, nil, r.panicked)
    /\ ncalls' = ncalls + 1
    /\ UNCHANGED <<registries, hist, gor>>

OnFetchBatchRead(i, NodeID, topic, UncompressedBytes) ==
    /\ ncalls < MaxCalls
    /\ LET r == OnFetchBatchReadFn(metrics[i], NodeID, topic, UncompressedBytes) IN
        /\ metrics' = [metrics EXCEPT ![i] = r.m]
        /\ lastCall' = HookCall("OnFetchBatchRead", i, NodeID, topic,
                                UncompressedBytes, nil, r.panicked)
    /\ ncalls' = ncalls + 1
    /\ UNCHANGED <<registries, hist, gor>>

Next ==
    \/ \E i \in DOMAIN metrics, x \in Nodes, err \in Errs :
            OnBrokerConnect(i, x, err)
    \/ \E i \in DOMAIN metrics, x \in Nodes :
            OnBrokerDisconnect(i, x)
    \/ \E i \in DOMAIN metrics, x \in Nodes, n \in ByteCounts, err \in Errs :
            OnBrokerWrite(i, x, n, err)
    \/ \E i \in DOMAIN metrics, x \in Nodes, n \in ByteCounts, err \in Errs :
            OnBrokerRead(i, x, n, err)
    \/ \E i \in DOMAIN metrics, x \in Nodes, t \in Topics, n \in ByteCounts :
            OnProduceBatchWritten(i, x, t, n)
    \/ \E i \in DOMAIN metrics, x \in Nodes, t \in Topics, n \in ByteCounts :
            OnFetchBatchRead(i, x, t, n)

Spec == Init /\ [][Next]_vars

(***************************************************************************)
(* Properties of the hooks (checked under Spec).                            *)
(***************************************************************************)
Key1(X) == <<Itoa(X)>>

Key2(X, T) == <<Itoa(X), T>>

HookOps == {"OnBrokerConnect", "OnBrokerDisconnect", "OnBrokerWrite",
            "OnBrokerRead", "OnProduceBatchWritten", "OnFetchBatchRead"}

\* The step is a call of op (every call advances ncalls).
Called(op) == ncalls' = ncalls + 1 /\ lastCall'.op = op

\* Every field of instance i other than those of S is left as it was.
OthersUnchanged(i, S) == \A f \in Fields \ S : metrics'[i][f] = metrics[i][f]

\* C1: the write_bytes_total of a node is the sum of the byte counts of the
\* writes on it that reported no error, and such a write adds exactly its
\* byte count and leaves write_errors_total as it was.
C1_SuccessfulWritesSum ==
    /\ [](\A i \in DOMAIN metrics, X \in Nodes :
            Val(metrics[i].writeBytes, Key1(X)) = hist[i].writeOKBytes[X])
    /\ [][Called("OnBrokerWrite") /\ lastCall'.args.err = nil
            /\ lastCall'.args.n >= 0
          => LET i == lastCall'.inst
                 X == lastCall'.args.node
             IN  /\ Val(metrics'[i].writeBytes, Key1(X))
                      = Val(metrics[i].writeBytes, Key1(X)) + lastCall'.args.n
                 /\ metrics'[i].writeErrs = metrics[i].writeErrs
                 /\ ~lastCall'.panicked]_vars

\* C1 witness: two successful writes of 2 bytes on a node that had a write
\* error before: 4 bytes and still 1 error.
C1_Witness ==
    /\ lastCall.op = "OnBrokerWrite" /\ lastCall.args.err = nil
    /\ lastCall.args.n = 2
    /\ Val(metrics[1].writeBytes, Key1(lastCall.args.node)) = 4
    /\ Val(metrics[1].writeErrs, Key1(lastCall.args.node)) = 1

\* C2: a write that carries an error adds exactly 1 to write_errors_total of
\* its node and leaves write_bytes_total as it was, whatever its byte count.
C2_WriteErrorCountsOnce ==
    [][Called("OnBrokerWrite") /\ lastCall'.args.err # nil
       => LET i == lastCall'.inst
              X == lastCall'.args.node
          IN  /\ Val(metrics'[i].writeErrs, Key1(X))
                   = Val(metrics[i].writeErrs, Key1(X)) + 1
              /\ metrics'[i].writeBytes = metrics[i].writeBytes
              /\ ~lastCall'.panicked]_vars

\* C2 witness: a failed write that reported 2 bytes, counted as an error on a
\* node with no bytes counted.
C2_Witness ==
    /\ lastCall.op = "OnBrokerWrite" /\ lastCall.args.err # nil
    /\ lastCall.args.n = 2
    /\ Val(metrics[1].writeErrs, Key1(lastCall.args.node)) = 2
    /\ Key1(lastCall.args.node) \notin DOMAIN metrics[1].writeBytes.children

\* C3: a read updates read_bytes_total (no error: by its byte count) or
\* read_errors_total (an error: by 1, whatever the byte count), never both.
C3_ReadBifurcates ==
    [][Called("OnBrokerRead")
       => LET i == lastCall'.inst
              X == lastCall'.args.node
              n == lastCall'.args.n
          IN  /\ (lastCall'.args.err = nil /\ n >= 0)
                   => /\ Val(metrics'[i].readBytes, Key1(X))
                           = Val(metrics[i].readBytes, Key1(X)) + n
                      /\ metrics'[i].readErrs = metrics[i].readErrs
              /\ lastCall'.args.err # nil
                   => /\ Val(metrics'[i].readErrs, Key1(X))
                           = Val(metrics[i].readErrs, Key1(X)) + 1
                      /\ metrics'[i].readBytes = metrics[i].readBytes
              /\ ~(/\ metrics'[i].readBytes # metrics[i].readBytes
                   /\ metrics'[i].readErrs # metrics[i].readErrs)]_vars

\* C3 witness: a failed read reporting 2 bytes after a successful read of 2.
C3_Witness ==
    /\ lastCall.op = "OnBrokerRead" /\ lastCall.args.err # nil
    /\ lastCall.args.n = 2
    /\ Val(metrics[1].readBytes, Key1(lastCall.args.node)) = 2
    /\ Val(metrics[1].readErrs, Key1(lastCall.args.node)) = 1

\* C4: a connect without error adds 1 to connects_total of its node and
\* leaves connect_errors_total; with an error it adds 1 to
\* connect_errors_total and leaves connects_total.
C4_ConnectBifurcates ==
    [][Called("OnBrokerConnect")
       => LET i == lastCall'.inst
              X == lastCall'.args.node
          IN  IF lastCall'.args.err = nil
              THEN /\ Val(metrics'[i].connects, Key1(X))
                        = Val(metrics[i].connects, Key1(X)) + 1
                   /\ metrics'[i].connectErrs = metrics[i].connectErrs
              ELSE /\ Val(metrics'[i].connectErrs, Key1(X))
                        = Val(metrics[i].connectErrs, Key1(X)) + 1
                   /\ metrics'[i].connects = metrics[i].connects]_vars

\* C4 witness: a failed connect on a node that had connected once.
C4_Witness ==
    /\ lastCall.op = "OnBrokerConnect" /\ lastCall.args.err # nil
    /\ Val(metrics[1].connects, Key1(lastCall.args.node)) = 1
    /\ Val(metrics[1].connectErrs, Key1(lastCall.args.node)) = 1

\* C5: a produce batch adds its uncompressed bytes to produce_bytes_total of
\* its node and topic, a fetch batch to fetch_bytes_total, and every other
\* family is left as it was.
C5_ProduceFetchBytes ==
    [][/\ (Called("OnProduceBatchWritten") /\ lastCall'.args.n >= 0)
          => LET i == lastCall'.inst
                 k == Key2(lastCall'.args.node, lastCall'.args.topic)
             IN  /\ Val(metrics'[i].produceBytes, k)
                      = Val(metrics[i].produceBytes, k) + lastCall'.args.n
                 /\ OthersUnchanged(i, {"produceBytes"})
       /\ (Called("OnFetchBatchRead") /\ lastCall'.args.n >= 0)
          => LET i == lastCall'.inst
                 k == Key2(lastCall'.args.node, lastCall'.args.topic)
             IN  /\ Val(metrics'[i].fetchBytes, k)
                      = Val(metrics[i].fetchBytes, k) + lastCall'.args.n
                 /\ OthersUnchanged(i, {"fetchBytes"})]_vars

\* C5 witness: a fetch of 2 bytes after a produce of 2 bytes and a connect
\* on the same node and topic.
C5_Witness ==
    /\ lastCall.op = "OnFetchBatchRead" /\ lastCall.args.n = 2
    /\ LET k == Key2(lastCall.args.node, lastCall.args.topic) IN
        /\ Val(metrics[1].fetchBytes, k) = 2
        /\ Val(metrics[1].produceBytes, k) = 2
    /\ Val(metrics[1].connects, Key1(lastCall.args.node)) = 1

\* The families whose hooks add 1 per event.
EventFields == {"connects", "connectErrs", "disconnects", "writeErrs", "readErrs"}

\* C7: every accumulator is non-negative in every state, and no step lowers
\* or removes one: a step adds 0 or 1 to an event counter and a non-negative
\* amount to a byte counter, negative byte counts included among the inputs.
C7_CountersMonotonic ==
    /\ [](\A i \in DOMAIN metrics, f \in Fields :
            \A k \in DOMAIN metrics[i][f].children :
                metrics[i][f].children[k] >= 0)
    /\ [][\A i \in DOMAIN metrics, f \in Fields :
            /\ \A k \in DOMAIN metrics[i][f].children :
                 /\ k \in DOMAIN metrics'[i][f].children
                 /\ metrics'[i][f].children[k] >= metrics[i][f].children[k]
            /\ \A k \in DOMAIN metrics'[i][f].children :
                 LET d == metrics'[i][f].children[k] - Val(metrics[i][f], k)
                 IN  IF f \in EventFields THEN d \in {0, 1} ELSE d >= 0]_vars

\* C7 witness: a write reporting a negative byte count and no error, on a
\* node whose write_bytes_total stays at the 2 bytes counted before.
C7_Witness ==
    /\ lastCall.op = "OnBrokerWrite" /\ lastCall.args.err = nil
    /\ lastCall.args.n < 0
    /\ Val(metrics[1].writeBytes, Key1(lastCall.args.node)) = 2

\* C8 (as claimed): no call of a hook panics, whatever its arguments.
C8_NoHookPanics == lastCall.op \in HookOps => ~lastCall.panicked

\* C10: per node, connects_total + connect_errors_total is the number of
\* connect events, disconnects_total the number of disconnect events, and
\* write_errors_total / read_errors_total the number of writes / reads that
\* carried an error.
C10_EveryEventCountedOnce ==
    \A i \in DOMAIN metrics, X \in Nodes :
        /\ Val(metrics[i].connects, Key1(X)) + Val(metrics[i].connectErrs, Key1(X))
             = hist[i].connectEvents[X]
        /\ Val(metrics[i].disconnects, Key1(X)) = hist[i].disconnectEvents[X]
        /\ Val(metrics[i].writeErrs, Key1(X)) = hist[i].writeErrEvents[X]
        /\ Val(metrics[i].readErrs, Key1(X)) = hist[i].readErrEvents[X]

\* C10 witness: a node with a connect, a failed connect and a disconnect.
C10_Witness ==
    \E X \in Nodes :
        /\ Val(metrics[1].connects, Key1(X)) = 1
        /\ Val(metrics[1].connectErrs, Key1(X)) = 1
        /\ Val(metrics[1].disconnects, Key1(X)) = 1
        /\ hist[1].connectEvents[X] = 2

(***************************************************************************)
(* Construction (SpecNew): NewMetrics calls into a registry of the caller   *)
(* or a fresh one, and hook calls on the instances returned.                *)
(***************************************************************************)
\* What the caller's registry may hold before the first NewMetrics.
UserRegistered == {{}, {"kafka_disconnects_total"}, GoCollectorNames}

RegOpts == {NoRegOpt, UserReg}

InitNew ==
    \E pre \in UserRegistered :
        /\ registries = (UserReg :> pre)
        /\ metrics = <<>>
        /\ lastCall = NoCall
        /\ ncalls = 0
        /\ hist = <<>>
        /\ gor = <<>>

NewMetricsCall(namespace, regOpt, goCollectors) ==
    /\ ncalls < MaxCalls
    /\ LET r == NewMetrics(registries, FreshReg(ncalls + 1), namespace,
                           regOpt, goCollectors) IN
        /\ registries' = r.regs
        /\ metrics' = IF r.panicked THEN metrics ELSE Append(metrics, r.m)
        /\ hist' = IF r.panicked THEN hist ELSE Append(hist, NoHist)
        /\ lastCall' = [op |-> "NewMetrics",
                        inst |-> IF r.panicked THEN 0 ELSE Len(metrics) + 1,
                        panicked |-> r.panicked,
                        args |-> [namespace |-> namespace, reg |-> regOpt,
                                  goCollectors |-> goCollectors]]
    /\ ncalls' = ncalls + 1
    /\ UNCHANGED gor

NextNew ==
    \/ \E ns \in Namespaces, ro \in RegOpts, gc \in BOOLEAN :
            NewMetricsCall(ns, ro, gc)
    \/ \E i \in DOMAIN metrics, x \in Nodes :
            OnBrokerDisconnect(i, x)

SpecNew == InitNew /\ [][NextNew]_vars

\* The names a NewMetrics call registers, and whether one is in the registry
\* the call registers into (a registry of its own is empty).
NamesRegisteredBy(args) ==
    FamilyNames(args.namespace)
      \cup (IF args.goCollectors THEN ProcessCollectorNames \cup GoCollectorNames
            ELSE {})

Collides(args) ==
    /\ args.reg # NoRegOpt
    /\ NamesRegisteredBy(args) \cap registries[args.reg] # {}

\* C9: a NewMetrics call into a registry that already holds one of the names
\* the call registers panics, and returns no Metrics.
C9_CollisionHaltsConstruction ==
    [][(Called("NewMetrics") /\ Collides(lastCall'.args))
       => /\ lastCall'.panicked
          /\ metrics' = metrics]_vars

\* C9 witness: a second NewMetrics with the namespace and the registry of
\* the first has panicked, and the first instance is the only one.
C9_Witness ==
    /\ lastCall.op = "NewMetrics" /\ lastCall.panicked
    /\ lastCall.args.reg = UserReg
    /\ Len(metrics) = 1
    /\ metrics[1].cfg.reg = UserReg
    /\ metrics[1].connects.fqName
         = BuildFQName(lastCall.args.namespace, "connects_total")

(***************************************************************************)
(* Concurrent callers (SpecConc): each goroutine runs hooks whose two       *)
(* steps, the lookup of the child and its increment, interleave with the    *)
(* steps of the others.                                                     *)
(***************************************************************************)
NumCallers == 2

CallsPerCaller == 2

\* The node every caller reports: a seed broker.
ConcNode == MinInt32

\* The vector a connect / disconnect hook increments.
HookTarget(hook, err) ==
    IF hook = "OnBrokerConnect"
    THEN (IF err # nil THEN "connectErrs" ELSE "connects")
    ELSE "disconnects"

ConcFields == {"connects", "connectErrs", "disconnects"}

InitConc ==
    /\ \E ns \in {"kafka"} :
        LET r == NewMetrics(<<>>, FreshReg(1), ns, NoRegOpt, FALSE) IN
        /\ registries = r.regs
        /\ metrics = <<r.m>>
    /\ lastCall = NoCall
    /\ ncalls = 0
    /\ hist = <<NoHist>>
    /\ gor = [g \in 1..NumCallers |->
                 [pc |-> "idle", field |-> "", key |-> <<>>, started |-> 0,
                  done |-> [f \in ConcFields |-> 0]]]

\* node := strconv.Itoa(...); c := m.<vec>.WithLabelValues(node)
GoLookup(g, hook, err) ==
    /\ gor[g].pc = "idle"
    /\ gor[g].started < CallsPerCaller
    /\ LET field == HookTarget(hook, err)
           key == <<Itoa(ConcNode)>>
           w == WithLabelValues(metrics[1][field], key)
       IN  /\ ~w.panicked
           /\ metrics' = [metrics EXCEPT ![1][field] = w.vec]
           /\ gor' = [gor EXCEPT ![g].pc = "looked", ![g].field = field,
                                 ![g].key = key, ![g].started = @ + 1]
    /\ UNCHANGED <<registries, lastCall, ncalls, hist>>

\* c.Inc(): one atomic add on the child the lookup returned
GoInc(g) ==
    /\ gor[g].pc = "looked"
    /\ LET field == gor[g].field
           key == gor[g].key
       IN  /\ metrics' = [metrics EXCEPT ![1][field].children[key] =
                              CounterInc(@).val]
           /\ gor' = [gor EXCEPT ![g].pc = "idle", ![g].done[field] = @ + 1]
    /\ UNCHANGED <<registries, lastCall, ncalls, hist>>

NextConc ==
    \/ \E g \in DOMAIN gor, err \in Errs : GoLookup(g, "OnBrokerConnect", err)
    \/ \E g \in DOMAIN gor : GoLookup(g, "OnBrokerDisconnect", nil)
    \/ \E g \in DOMAIN gor : GoInc(g)

SpecConc == InitConc /\ [][NextConc]_vars

RECURSIVE SumDone(_, _)
SumDone(f, g) == IF g = 0 THEN 0 ELSE gor[g].done[f] + SumDone(f, g - 1)

AllDone ==
    \A g \in DOMAIN gor : gor[g].pc = "idle" /\ gor[g].started = CallsPerCaller

\* C6: when every caller has finished its calls, each tuple holds the number
\* of increments made on it; NumCallers * CallsPerCaller when all were made
\* on the same tuple.
C6_NoLostUpdates ==
    AllDone =>
        \A f \in ConcFields :
            /\ Val(metrics[1][f], <<Itoa(ConcNode)>>) = SumDone(f, NumCallers)
            /\ (\A g \in DOMAIN gor : gor[g].done[f] = CallsPerCaller)
                 => Val(metrics[1][f], <<Itoa(ConcNode)>>)
                      = NumCallers * CallsPerCaller

\* C6 witness: every caller made all its calls on disconnects_total of the
\* same node, and the tuple holds NumCallers * CallsPerCaller.
C6_Witness ==
    /\ AllDone
    /\ \A g \in DOMAIN gor : gor[g].done["disconnects"] = CallsPerCaller
    /\ Val(metrics[1].disconnects, <<Itoa(ConcNode)>>)
         = NumCallers * CallsPerCaller

(***************************************************************************)
(* Further properties of the hooks (checked under Spec).                    *)
(***************************************************************************)
\* C11: a disconnect adds exactly 1 to disconnects_total of its node, does
\* not panic, and leaves every other family, connects_total included, as it
\* was.
C11_DisconnectCountsOnce ==
    [][Called("OnBrokerDisconnect")
       => LET i == lastCall'.inst
              X == lastCall'.args.node
          IN  /\ Val(metrics'[i].disconnects, Key1(X))
                   = Val(metrics[i].disconnects, Key1(X)) + 1
              /\ OthersUnchanged(i, {"disconnects"})
              /\ ~lastCall'.panicked]_vars

\* C11 witness: a disconnect on a node that had connected twice: the two
\* connects are still counted.
C11_Witness ==
    /\ lastCall.op = "OnBrokerDisconnect"
    /\ Val(metrics[1].disconnects, Key1(lastCall.args.node)) = 1
    /\ Val(metrics[1].connects, Key1(lastCall.args.node)) = 2

(***************************************************************************)
(* Replay (SpecReplay): a batch of events is delivered to one instance, in  *)
(* any order, each by a goroutine of the client whose hook call interleaves *)
(* with the others between its lookup of the child and its Add or Inc.      *)
(***************************************************************************)
MaxBatch == 4

Event(op, NodeID, topic, n, err, seq) ==
    [op |-> op, node |-> NodeID, topic |-> topic, n |-> n, err |-> err,
     seq |-> seq]

\* One connect on node 1, one failed connect on node 2, one write of 500
\* bytes on node 1, one fetch of 1000 bytes of topic "orders" on node 1.
Scenario ==
    { Event("OnBrokerConnect", 1, "", 0, nil, 1),
      Event("OnBrokerConnect", 2, "", 0, "EOF", 1),
      Event("OnBrokerWrite", 1, "", 500, nil, 1),
      Event("OnFetchBatchRead", 1, "orders", 1000, nil, 1) }

EventPool ==
    Scenario \cup
    { Event("OnBrokerConnect", 1, "", 0, nil, 2),
      Event("OnBrokerDisconnect", 1, "", 0, nil, 1),
      Event("OnBrokerWrite", 1, "", 7, nil, 1),
      Event("OnBrokerWrite", 1, "", 500, "EOF", 1),
      Event("OnBrokerRead", 2, "", -1, nil, 1),
      Event("OnProduceBatchWritten", 1, "orders", 1000, nil, 1) }

\* The client calls the hook of the event's type.
HookFn(m, e) ==
    CASE e.op = "OnBrokerConnect" -> OnBrokerConnectFn(m, e.node, e.err)
      [] e.op = "OnBrokerDisconnect" -> OnBrokerDisconnectFn(m, e.node)
      [] e.op = "OnBrokerWrite" -> OnBrokerWriteFn(m, e.node, e.n, e.err)
      [] e.op = "OnBrokerRead" -> OnBrokerReadFn(m, e.node, e.n, e.err)
      [] e.op = "OnProduceBatchWritten" ->
            OnProduceBatchWrittenFn(m, e.node, e.topic, e.n)
      [] e.op = "OnFetchBatchRead" ->
            OnFetchBatchReadFn(m, e.node, e.topic, e.n)

\* m := kprom.NewMetrics("kafka")
FreshMetrics == NewMetrics(<<>>, FreshReg(1), "kafka", NoRegOpt, FALSE)

\* The vector and label values the hook of e looks up.
LookupOf(e) ==
    LET r == HookFn(FreshMetrics.m, e).m
        f == CHOOSE f \in Fields : DOMAIN r[f].children # {}
    IN  [field |-> f, key |-> CHOOSE k \in DOMAIN r[f].children : TRUE]

InitReplay ==
    /\ registries = FreshMetrics.regs
    /\ metrics = <<FreshMetrics.m>>
    /\ lastCall = NoCall
    /\ ncalls = 0
    /\ hist = <<NoHist>>
    /\ \E batch \in SUBSET EventPool :
        /\ batch # {}
        /\ Cardinality(batch) <= MaxBatch
        /\ gor = [batch |-> batch, pending |-> batch, looked |-> {}]

\* node := strconv.Itoa(...); c := m.<vec>.WithLabelValues(...)
ReplayLookup(e) ==
    /\ e \in gor.pending
    /\ LET t == LookupOf(e) IN
        metrics' = [metrics EXCEPT ![1][t.field] = WithLabelValues(@, t.key).vec]
    /\ gor' = [gor EXCEPT !.pending = @ \ {e}, !.looked = @ \cup {e}]
    /\ UNCHANGED <<registries, lastCall, ncalls, hist>>

\* c.Inc() or c.Add(...): one atomic add on the child looked up, and return
ReplayAdd(e) ==
    /\ e \in gor.looked
    /\ LET r == HookFn(metrics[1], e) IN
        /\ metrics' = [metrics EXCEPT ![1] = r.m]
        /\ lastCall' = HookCall(e.op, 1, e.node, e.topic, e.n, e.err, r.panicked)
    /\ gor' = [gor EXCEPT !.looked = @ \ {e}]
    /\ ncalls' = ncalls + 1
    /\ UNCHANGED <<registries, hist>>

NextReplay ==
    \/ \E e \in EventPool : ReplayLookup(e)
    \/ \E e \in EventPool : ReplayAdd(e)

SpecReplay == InitReplay /\ [][NextReplay]_vars

ReplayDone == gor.pending = {} /\ gor.looked = {}

NoChildren(vec) == DOMAIN vec.children = {}

\* C12: after the four events of the scenario, in any order,
\* kafka_connects_total{1} = 1, kafka_connect_errors_total{2} = 1,
\* kafka_write_bytes_total{1} = 500, kafka_fetch_bytes_total{1,orders} = 1000
\* and no other label tuple of any family exists.
C12_ScenarioValues ==
    (ReplayDone /\ gor.batch = Scenario) =>
        LET m == metrics[1] IN
        /\ m.connects.fqName = "kafka_connects_total"
        /\ m.connects.children = (<<"1">> :> 1)
        /\ m.connectErrs.fqName = "kafka_connect_errors_total"
        /\ m.connectErrs.children = (<<"2">> :> 1)
        /\ m.writeBytes.fqName = "kafka_write_bytes_total"
        /\ m.writeBytes.children = (<<"1">> :> 500)
        /\ m.fetchBytes.fqName = "kafka_fetch_bytes_total"
        /\ m.fetchBytes.children = (<<"1", "orders">> :> 1000)
        /\ \A f \in Fields \ {"connects", "connectErrs", "writeBytes", "fetchBytes"} :
               NoChildren(m[f])

\* C12 witness: the scenario has been replayed to its end.
C12_Witness ==
    /\ ReplayDone /\ gor.batch = Scenario
    /\ Val(metrics[1].fetchBytes, <<"1", "orders">>) = 1000
    /\ Val(metrics[1].writeBytes, <<"1">>) = 500

\* The batch replayed one event after the other, in one fixed order.
RECURSIVE ReplayInOrder(_, _)
ReplayInOrder(m, events) ==
    IF events = {} THEN m
    ELSE LET e == CHOOSE e \in events : TRUE
         IN  ReplayInOrder(HookFn(m, e).m, events \ {e})

\* C19: whatever the order and the interleaving in which a batch of events
\* was delivered, the counters and the label tuples that exist at the end
\* are those of the batch delivered in one fixed order.
C19_DeliveryOrderIrrelevant ==
    ReplayDone => metrics[1] = ReplayInOrder(FreshMetrics.m, gor.batch)

\* C19 witness: a batch with two writes of different sizes and a failed
\* write on the same node has been delivered.
C19_Witness ==
    /\ ReplayDone
    /\ Cardinality(gor.batch) = 3
    /\ Val(metrics[1].writeBytes, <<"1">>) = 507
    /\ Val(metrics[1].writeErrs, <<"1">>) = 1

(***************************************************************************)
(* Labels (SpecLabel): the six hooks called with node ids of both signs,    *)
(* the seed id math.MinInt32 among them.                                    *)
(***************************************************************************)
LabelNodes == {MinInt32, -1, 1, 10}

InitLabel ==
    /\ registries = FreshMetrics.regs
    /\ metrics = <<FreshMetrics.m>>
    /\ lastCall = NoCall
    /\ ncalls = 0
    /\ hist = <<[connectEvents    |-> [x \in LabelNodes |-> 0],
                 disconnectEvents |-> [x \in LabelNodes |-> 0],
                 writeErrEvents   |-> [x \in LabelNodes |-> 0],
                 readErrEvents    |-> [x \in LabelNodes |-> 0],
                 writeOKBytes     |-> [x \in LabelNodes |-> 0]]>>
    /\ gor = <<>>

NextLabel ==
    \/ \E x \in LabelNodes, err \in Errs : OnBrokerConnect(1, x, err)
    \/ \E x \in LabelNodes : OnBrokerDisconnect(1, x)
    \/ \E x \in LabelNodes : OnBrokerWrite(1, x, 2, nil)
    \/ \E x \in LabelNodes : OnBrokerRead(1, x, 2, nil)
    \/ \E x \in LabelNodes : OnProduceBatchWritten(1, x, "orders", 2)
    \/ \E x \in LabelNodes : OnFetchBatchRead(1, x, "orders", 2)

SpecLabel == InitLabel /\ [][NextLabel]_vars

\* The decimal rendering of some 32-bit node ids, written out.
DecimalOf ==
    (MinInt32 :> "-2147483648") @@ (MinInt32 + 1 :> "-2147483647")
      @@ (-1000 :> "-1000") @@ (-10 :> "-10") @@ (-9 :> "-9") @@ (-1 :> "-1")
      @@ (0 :> "0") @@ (1 :> "1") @@ (9 :> "9") @@ (10 :> "10")
      @@ (1000 :> "1000") @@ (2147483647 :> "2147483647")

\* The tuple the last hook call selected, with the node rendered by DecimalOf.
SelectedByLastCall ==
    LET a == lastCall.args
        node == DecimalOf[a.node]
    IN  CASE lastCall.op = "OnBrokerConnect" ->
                [field |-> IF a.err # nil THEN "connectErrs" ELSE "connects",
                 key |-> <<node>>]
          [] lastCall.op = "OnBrokerDisconnect" ->
                [field |-> "disconnects", key |-> <<node>>]
          [] lastCall.op = "OnBrokerWrite" ->
                [field |-> IF a.err # nil THEN "writeErrs" ELSE "writeBytes",
                 key |-> <<node>>]
          [] lastCall.op = "OnBrokerRead" ->
                [field |-> IF a.err # nil THEN "readErrs" ELSE "readBytes",
                 key |-> <<node>>]
          [] lastCall.op = "OnProduceBatchWritten" ->
                [field |-> "produceBytes", key |-> <<node, a.topic>>]
          [] lastCall.op = "OnFetchBatchRead" ->
                [field |-> "fetchBytes", key |-> <<node, a.topic>>]

\* C13: Itoa renders a node id as its signed decimal, math.MinInt32 as
\* "-2147483648", and different ids differently; the tuple a hook updates is
\* the one labelled with that rendering, so that the connects of each id are
\* counted apart from those of every other id.
C13_NodeLabelIsSignedDecimal ==
    /\ \A x \in DOMAIN DecimalOf : Itoa(x) = DecimalOf[x]
    /\ \A x, y \in DOMAIN DecimalOf : x # y => Itoa(x) # Itoa(y)
    /\ lastCall.op \in HookOps =>
          /\ ~lastCall.panicked
          /\ LET t == SelectedByLastCall IN
                /\ t.key \in DOMAIN metrics[1][t.field].children
                /\ metrics[1][t.field].children[t.key] >= 1
    /\ \A x \in LabelNodes :
          Val(metrics[1].connects, <<DecimalOf[x]>>)
            + Val(metrics[1].connectErrs, <<DecimalOf[x]>>)
              = hist[1].connectEvents[x]

\* C13 witness: a write on the seed id math.MinInt32 is counted under
\* node_id "-2147483648", after a connect on node -1 and one on node 1.
C13_Witness ==
    /\ lastCall.op = "OnBrokerWrite" /\ lastCall.args.node = MinInt32
    /\ Val(metrics[1].writeBytes, <<"-2147483648">>) = 2
    /\ Val(metrics[1].connects, <<"-1">>) = 1
    /\ Val(metrics[1].connects, <<"1">>) = 1

(***************************************************************************)
(* Frame and lifetime of the label tuples (checked under Spec).             *)
(***************************************************************************)
\* The step is a call of one of the hooks.
HookCalled == ncalls' = ncalls + 1 /\ lastCall'.op \in HookOps

\* What the call adds: 1 for an event counter, the byte count for a byte
\* counter, nothing when the call panicked.
AmountOfLastCall ==
    IF lastCall.panicked THEN 0
    ELSE IF lastCall.op \in {"OnBrokerConnect", "OnBrokerDisconnect"} THEN 1
    ELSE IF lastCall.op \in {"OnBrokerWrite", "OnBrokerRead"}
              /\ lastCall.args.err # nil THEN 1
    ELSE lastCall.args.n

\* C16: a hook call changes nothing but the accumulator of the one tuple
\* selected by the kind of the event, its outcome, its node and (produce and
\* fetch) its topic: that tuple grows by the amount of the call, the other
\* tuples of its family keep their values, no other tuple appears, and every
\* other family is as it was.
C16_OnlySelectedTupleChanges ==
    [][HookCalled =>
         LET i == lastCall'.inst
             t == SelectedByLastCall'
             old == metrics[i][t.field]
             new == metrics'[i][t.field]
         IN  /\ OthersUnchanged(i, {t.field})
             /\ metrics'[i].cfg = metrics[i].cfg
             /\ new.fqName = old.fqName /\ new.labels = old.labels
             /\ DOMAIN new.children \subseteq DOMAIN old.children \cup {t.key}
             /\ \A k \in DOMAIN old.children \ {t.key} :
                    k \in DOMAIN new.children /\ new.children[k] = old.children[k]
             /\ Val(new, t.key) = Val(old, t.key) + AmountOfLastCall'
             /\ AmountOfLastCall' > 0 => metrics'[i] # metrics[i]
             /\ registries' = registries]_vars

\* C16 witness: a produce of 2 bytes on (1, "orders") after a produce on the
\* other topic of node 1 and a fetch on (1, "orders"), both still 2.
C16_Witness ==
    /\ lastCall.op = "OnProduceBatchWritten" /\ ~lastCall.panicked
    /\ lastCall.args.node = 1 /\ lastCall.args.topic = "orders"
    /\ Val(metrics[1].produceBytes, <<"1", "orders">>) = 2
    /\ <<"1", "">> \in DOMAIN metrics[1].produceBytes.children
    /\ metrics[1].produceBytes.children[<<"1", "">>] = 2
    /\ Val(metrics[1].fetchBytes, <<"1", "orders">>) = 2

\* C18: construction creates no tuple; a tuple appears in a family only by a
\* hook call that selects it, and that call makes it exist whatever the
\* amount (a byte count of 0 included); a tuple that exists stays, with a
\* value never below the one it had.
C18_TuplesLazyAndPermanent ==
    /\ [](ncalls = 0 => \A i \in DOMAIN metrics, f \in Fields :
                            NoChildren(metrics[i][f]))
    /\ [][\A i \in DOMAIN metrics, f \in Fields :
            \A k \in DOMAIN metrics[i][f].children :
                /\ k \in DOMAIN metrics'[i][f].children
                /\ metrics'[i][f].children[k] >= metrics[i][f].children[k]]_vars
    /\ [][HookCalled =>
            LET i == lastCall'.inst
                t == SelectedByLastCall'
            IN  \A f \in Fields :
                   DOMAIN metrics'[i][f].children =
                      DOMAIN metrics[i][f].children
                        \cup (IF f = t.field THEN {t.key} ELSE {})]_vars

\* C18 witness: a read of 0 bytes is the first call on node 1; its tuple
\* exists with the value 0.
C18_Witness ==
    /\ ncalls = 2 /\ lastCall.op = "OnBrokerRead"
    /\ lastCall.args.n = 0 /\ lastCall.args.err = nil /\ lastCall.args.node = 1
    /\ <<"1">> \in DOMAIN metrics[1].readBytes.children
    /\ metrics[1].readBytes.children[<<"1">>] = 0
    /\ <<"-2147483648">> \in DOMAIN metrics[1].readBytes.children

(***************************************************************************)
(* What a construction leaves in the registry (checked under SpecNew).      *)
(***************************************************************************)
\* The metric name surface: the name of each family without the namespace,
\* and its label names.
NameSurface ==
    [connects     |-> [name |-> "connects_total",       labels |-> <<"node_id">>],
     connectErrs  |-> [name |-> "connect_errors_total", labels |-> <<"node_id">>],
     disconnects  |-> [name |-> "disconnects_total",    labels |-> <<"node_id">>],
     writeErrs    |-> [name |-> "write_errors_total",   labels |-> <<"node_id">>],
     writeBytes   |-> [name |-> "write_bytes_total",    labels |-> <<"node_id">>],
     readErrs     |-> [name |-> "read_errors_total",    labels |-> <<"node_id">>],
     readBytes    |-> [name |-> "read_bytes_total",     labels |-> <<"node_id">>],
     produceBytes |-> [name |-> "produce_bytes_total",  labels |-> <<"node_id", "topic">>],
     fetchBytes   |-> [name |-> "fetch_bytes_total",    labels |-> <<"node_id", "topic">>]]

NineNames(ns) == {ns \o "_" \o NameSurface[f].name : f \in DOMAIN NameSurface}

\* What registry r held before the step (nothing if it did not exist).
HeldBefore(r) == IF r \in DOMAIN registries THEN registries[r] ELSE {}

C20_FailedConstructionLeavesRegistry ==
    [][(Called("NewMetrics") /\ lastCall'.panicked
          /\ lastCall'.args.reg # NoRegOpt)
       => registries'[lastCall'.args.reg] = registries[lastCall'.args.reg]]_vars

(***************************************************************************)
(* Scrapes (SpecScrape): the handler Handler() returns gathers the          *)
(* registry of the instance; hook calls come between the scrapes.           *)
(***************************************************************************)
\* What a vector collects: one sample per child.
Samples(m) ==
    UNION {{[name |-> m[f].fqName, lvs |-> k, value |-> m[f].children[k]] :
               k \in DOMAIN m[f].children} : f \in Fields}

\* reg.Gather(): the samples of the vectors registered in registry r.
Gather(regs, ms, r) ==
    UNION {IF ms[j].cfg.reg = r
           THEN {smp \in Samples(ms[j]) : smp.name \in regs[r]}
           ELSE {} : j \in DOMAIN ms}

\* Mutant: a scrape that resets the counters it has read.
ScrapeFn_Reset(regs, ms, i) ==
    [ms |-> [ms EXCEPT ![i] =
               [f \in DOMAIN ms[i] |->
                   IF f = "cfg" THEN ms[i][f]
                   ELSE [ms[i][f] EXCEPT !.children =
                            [k \in DOMAIN ms[i][f].children |-> 0]]]],
     out |-> Gather(regs, ms, ms[i].cfg.reg)]

\* One request served by m.Handler(), m the i-th instance: the instances
\* after it and the samples of the response.
ScrapeFn(regs, ms, i) ==
    [ms |-> ms, out |-> Gather(regs, ms, ms[i].cfg.reg)]

InitScrape ==
    /\ registries = FreshMetrics.regs
    /\ metrics = <<FreshMetrics.m>>
    /\ lastCall = NoCall
    /\ ncalls = 0
    /\ hist = <<NoHist>>
    /\ gor = <<>>

\* lastCall keeps the samples of the response and the call made before it.
Scrape(i) ==
    /\ ncalls < MaxCalls
    /\ LET r == ScrapeFn(registries, metrics, i) IN
        /\ metrics' = r.ms
        /\ lastCall' = [op |-> "Scrape", inst |-> i, panicked |-> FALSE,
                        args |-> [out |-> r.out, after |-> lastCall.op]]
    /\ ncalls' = ncalls + 1
    /\ UNCHANGED <<registries, hist, gor>>

NextScrape ==
    \/ \E i \in DOMAIN metrics : Scrape(i)
    \/ \E i \in DOMAIN metrics, x \in Nodes, err \in Errs :
            OnBrokerConnect(i, x, err)
    \/ \E i \in DOMAIN metrics, x \in Nodes, t \in Topics, n \in ByteCounts :
            OnProduceBatchWritten(i, x, t, n)

SpecScrape == InitScrape /\ [][NextScrape]_vars

MaxWrites == 3

ScrapeCallers == {"c1", "c2"}

WriteSizes == {1, 2}

InitScrapeConc ==
    /\ registries = FreshMetrics.regs
    /\ metrics = <<FreshMetrics.m>>
    /\ lastCall = NoCall
    /\ ncalls = 0
    /\ hist = <<NoHist>>
    /\ gor = [callers |-> [g \in ScrapeCallers |->
                              [pc |-> "idle", key |-> <<>>, n |-> 0]],
              begun |-> 0,
              scraper |-> [pc |-> "idle", atBegin |-> <<>>, read |-> <<>>]]

\* OnBrokerWrite with err == nil, first step:
\* node := strconv.Itoa(...); c := m.writeBytes.WithLabelValues(node)
WriteLookup(g, NodeID, bytesWritten) ==
    /\ gor.callers[g].pc = "idle"
    /\ gor.begun < MaxWrites
    /\ LET key == <<Itoa(NodeID)>>
           w == WithLabelValues(metrics[1].writeBytes, key)
       IN  /\ ~w.panicked
           /\ metrics' = [metrics EXCEPT ![1].writeBytes = w.vec]
           /\ gor' = [gor EXCEPT
                        !.callers[g] = [pc |-> "looked", key |-> key,
                                        n |-> bytesWritten],
                        !.begun = @ + 1]
    /\ UNCHANGED <<registries, lastCall, ncalls, hist>>

\* second step: c.Add(float64(bytesWritten)), one atomic add
WriteAdd(g) ==
    /\ gor.callers[g].pc = "looked"
    /\ LET key == gor.callers[g].key
           a == CounterAdd(metrics[1].writeBytes.children[key],
                           Float64(gor.callers[g].n))
       IN  /\ ~a.panicked
           /\ metrics' = [metrics EXCEPT ![1].writeBytes.children[key] = a.val]
           /\ gor' = [gor EXCEPT !.callers[g] =
                         [pc |-> "idle", key |-> <<>>, n |-> 0]]
    /\ UNCHANGED <<registries, lastCall, ncalls, hist>>

\* Mutant: the scrape shows the value the counter was created with.
ReadCounter_Initial(vec, k) == 0

\* Counter.Write: one atomic load of the value of the child
ReadCounter(vec, k) == vec.children[k]

\* The request arrives; atBegin remembers what each tuple held then.
ScrapeBegin ==
    /\ gor.scraper.pc = "idle"
    /\ gor' = [gor EXCEPT !.scraper =
                  [pc |-> "reading",
                   atBegin |-> metrics[1].writeBytes.children,
                   read |-> <<>>]]
    /\ UNCHANGED <<registries, metrics, lastCall, ncalls, hist>>

\* Gather reads one more tuple.
ScrapeRead(k) ==
    /\ gor.scraper.pc = "reading"
    /\ k \in DOMAIN metrics[1].writeBytes.children
    /\ k \notin DOMAIN gor.scraper.read
    /\ gor' = [gor EXCEPT !.scraper.read =
                  (k :> ReadCounter(metrics[1].writeBytes, k)) @@ @]
    /\ UNCHANGED <<registries, metrics, lastCall, ncalls, hist>>

\* The response is written once every tuple there at the start was read.
ScrapeEnd ==
    /\ gor.scraper.pc = "reading"
    /\ DOMAIN gor.scraper.atBegin \subseteq DOMAIN gor.scraper.read
    /\ gor' = [gor EXCEPT !.scraper.pc = "done"]
    /\ UNCHANGED <<registries, metrics, lastCall, ncalls, hist>>

NextScrapeConc ==
    \/ \E g \in ScrapeCallers, x \in Nodes, n \in WriteSizes :
            WriteLookup(g, x, n)
    \/ \E g \in ScrapeCallers : WriteAdd(g)
    \/ ScrapeBegin
    \/ \E x \in Nodes : ScrapeRead(<<Itoa(x)>>)
    \/ ScrapeEnd

SpecScrapeConc == InitScrapeConc /\ [][NextScrapeConc]_vars

\* The bytes of the writes on tuple k that have begun and not yet added.
RECURSIVE InFlight(_, _)
InFlight(k, G) ==
    IF G = {} THEN 0
    ELSE LET g == CHOOSE g \in G : TRUE IN
         (IF gor.callers[g].pc = "looked" /\ gor.callers[g].key = k
          THEN gor.callers[g].n ELSE 0) + InFlight(k, G \ {g})

\* C17: when a scrape ends, the value it read for a tuple is at least what
\* the tuple held when the scrape began (the writes completed before it) and
\* at most what it holds now plus the writes on it still in flight (the
\* writes begun before the end); every tuple there at the start was read.
C17_ScrapeReadsWithinWindow ==
    [][(gor.scraper.pc = "reading" /\ gor'.scraper.pc = "done") =>
         /\ DOMAIN gor.scraper.atBegin \subseteq DOMAIN gor.scraper.read
         /\ \A k \in DOMAIN gor.scraper.read :
               /\ gor.scraper.read[k]
                    >= (IF k \in DOMAIN gor.scraper.atBegin
                        THEN gor.scraper.atBegin[k] ELSE 0)
               /\ gor.scraper.read[k]
                    <= metrics[1].writeBytes.children[k]
                         + InFlight(k, ScrapeCallers)]_vars

\* C17 witness: a finished scrape that read 2 for node 1, which held 1 when
\* the scrape began, and 0 for the seed node, which holds 2 at the end: no
\* instant had both values.
C17_Witness ==
    /\ gor.scraper.pc = "done"
    /\ gor.scraper.atBegin = (<<"1">> :> 1)
    /\ gor.scraper.read = (<<"1">> :> 2) @@ (<<"-2147483648">> :> 0)
    /\ metrics[1].writeBytes.children[<<"-2147483648">>] = 2
    /\ \A g \in ScrapeCallers : gor.callers[g].pc = "idle"

=============================================================================
